---- MODULE Spec2Model ----
(***************************************************************************)
(* Model of ytinfo/scraping.py: the three fetch routines get_data,         *)
(* get_thumbnail and get_channel_videos, their retry loops, their deadline *)
(* handling and their session scoping (Spec, FairSpec), and the two pure   *)
(* routines get_status and extract_info (SpecInfo).                        *)
(*                                                                         *)
(* Strings are sequences of tokens.  "W" is the text                       *)
(* "https://www.youtube.com/watch?v=", "B" is "https://youtu.be/", "a" and *)
(* "-" are characters of the class [\w-], "@" and "&" are characters       *)
(* outside it; "I", "Y" and "C" are the fixed prefixes of the thumbnail,   *)
(* handle and channel urls.  An optional value is <<>> (None) or <<v>>.    *)
(*                                                                         *)
(* The transport is the environment: every session.get / session.post      *)
(* picks its outcome (a response or an exception) and the time it takes.   *)
(* The upstream serves a bounded amount during one call (budget): one unit *)
(* for each outcome, each tab and each item.  An item of a listing is      *)
(* named by where the upstream put it: <<url, tab, page, position>>.       *)
(***************************************************************************)
EXTENDS Integers, Sequences, FiniteSets, TLC

\* ---------------------------------------------------------------- bounds
MaxRetries == 2
\* largest timeout argument, in clock ticks
MaxTimeout == 2
\* largest clock value
MaxClock == 3
\* longest transport call, in clock ticks
MaxStep == 1
\* most tabs of a listing page, most items of a page
MaxTabs == 2
MaxItems == 2
\* budget of the upstream for a call with any arguments
MaxSeen == 4
\* budget of the upstream for a get_channel_videos call with defaults
MaxListed == 8
\* most labels of the content subtree given to extract_info
MaxLabels == 2

\* ------------------------------------------------------- optional values
None == <<>>
Some(v) == <<v>>

\* ----------------------------------------------------------------- state
VARIABLES
    fn,            \* the routine that was called
    in_str,        \* its in_str argument
    format,        \* its format argument (get_thumbnail)
    retries,       \* its retries argument
    timeout,       \* its timeout argument: None or Some(seconds)
    sessionArg,    \* its session argument: None or Some("caller")
    data,          \* its data argument (get_status, extract_info)
    entry,         \* time.monotonic() when the call was entered
    pc,            \* position of the call
    session,       \* the session the body runs with
    created,       \* sessions created by the call
    closedOwn,     \* times a created session was closed
    closedCaller,  \* times the caller's session was closed
    used,          \* sessions on which a transport call was issued
    now,           \* time.monotonic()
    url,           \* url of the current retry loop
    end_time,      \* None or Some(deadline)
    attempt,       \* iterations of the current retry loop begun so far
    ncalls,        \* transport calls issued by the call
    log,           \* transport outcomes of the current retry loop, in order
    lastResp,      \* the last transport outcome
    outcome,       \* "running", "return" or the exception that left the call
    result,        \* the returned value
    urlIdx,        \* get_channel_videos: index of the sub-listing url
    tabs,          \* get_channel_videos: tabs of the current listing page
    tabIdx,        \* get_channel_videos: index of the tab being processed
    videos,        \* get_channel_videos: the accumulator
    continuation,  \* get_channel_videos: None or Some(continuation item)
    budget,        \* what the upstream may still serve
    tabStart,      \* Len(videos) when the current tab was entered
    tabLog,        \* pages processed for the current tab, in order
    sent           \* tokens sent in continuation requests, in order

vars == <<fn, in_str, format, retries, timeout, sessionArg, data, entry,
          pc, session, created, closedOwn, closedCaller, used, now, url, end_time,
          attempt, ncalls, log, lastResp, outcome, result, urlIdx,
          tabs, tabIdx, videos, continuation, budget, tabStart, tabLog,
          sent>>

chanVars ==
    <<urlIdx, tabs, tabIdx, videos, continuation, tabStart, tabLog, sent>>

argVars == <<fn, in_str, format, retries, timeout, sessionArg, data, entry>>

\* --------------------------------------------------------------- strings
WordChars == {"a", "-"}

\* re.search(r"^[\w-]+$", s) is not None
IsBareId(s) == Len(s) >= 1 /\ \A i \in 1..Len(s) : s[i] \in WordChars

\* length of the run of [\w-] characters of s that starts at position i
RECURSIVE RunLen(_, _)
RunLen(s, i) ==
    IF i > Len(s) \/ s[i] \notin WordChars THEN 0 ELSE 1 + RunLen(s, i + 1)

\* _get_videoid: first position where a watch / short prefix is followed by
\* at least one [\w-] character; the greedy group is the whole run.
VideoIdStarts(s) ==
    {i \in 1..Len(s) : s[i] \in {"W", "B"} /\ RunLen(s, i + 1) >= 1}

Min(S) == CHOOSE x \in S : \A y \in S : x <= y

_get_videoid(s) ==
    IF VideoIdStarts(s) = {} THEN None
    ELSE LET i == Min(VideoIdStarts(s))
         IN Some(SubSeq(s, i + 1, i + RunLen(s, i + 1)))

\* inputs of the calls
InStrs == {<<"a">>, <<"a", "-">>, <<"W", "a">>, <<"B", "a", "&">>,
           <<"&">>, <<"W">>, <<>>}
DataInStrs == {<<"a">>, <<"B", "a", "&">>, <<"&">>}
ChannelInStrs == {<<"@", "a">>}
Formats == {"maxres", "hq", "bogus"}

\* ------------------------------------------------------------- transport
StatusCodes == {200, 404}

\* exceptions the transport can raise; a timeout exception needs a
\* per-request timeout
TransportExcs(rt) ==
    {"ConnectionError"} \cup
    (IF rt = None THEN {} ELSE {"ConnectTimeout", "ReadTimeout"})

\* except requests.ConnectionError: ConnectTimeout derives from it,
\* ReadTimeout does not
IsConnectionError(e) == e \in {"ConnectionError", "ConnectTimeout"}

BlobKinds == {"absent", "unparseable", "ok"}

\* a transport outcome: exc = "none" for a response
Resp(e, st, body) == [exc |-> e, status |-> st, body |-> body]
NoBody == [kind |-> "none"]
NoResp == Resp("none", 0, NoBody)

\* a response whose status is checked before its body is read: the body of
\* a non-200 response is never looked at and is left empty
Checked(bodies) ==
    {Resp("none", 200, b) : b \in bodies} \cup
    {Resp("none", st, NoBody) : st \in StatusCodes \ {200}}
Raised(rt) == {Resp(e, 0, NoBody) : e \in TransportExcs(rt)}

\* outcomes of session.get on a watch page
WatchBodies == [ipr : BlobKinds, idata : BlobKinds]
WatchOutcomes(rt) == Checked(WatchBodies) \cup Raised(rt)

\* outcomes of session.get on a thumbnail url
ThumbOutcomes(rt) == Checked({[kind |-> "jpeg"]}) \cup Raised(rt)

\* _extract_initial_player_response / _extract_initial_data on a body:
\* None when the pattern is not found, the parsed value (named by the
\* response it came from) when json.loads accepts the match
ExtractRaises(kind) == kind = "unparseable"
ExtractStale(kind, n) == IF kind = "ok" THEN Some(n - 1) ELSE None
Extract(kind, n) == IF kind = "ok" THEN Some(n) ELSE None

\* ----------------------------------------------------------------- clock
\* the clock values a transport call can end at; the clock is read only
\* when a deadline is set, and stands still in the model otherwise
Later ==
    IF end_time = None THEN {now}
    ELSE {t \in now..(now + MaxStep) : t <= MaxClock}

\* end_time = time.monotonic() + timeout, only "if timeout:"
Truthy(t) == t # None /\ t[1] # 0
Deadline(t, clock) == IF Truthy(t) THEN Some(clock + t[1]) ELSE None

\* "for _ in range(...)": the step from one iteration to the next
NextAttemptSame(a) == a
NextAttempt(a) == a + 1

\* range(retries+1): the number of iterations of a retry loop
AttemptsShort(r) == r
Attempts(r) == r + 1

\* response.status_code == 200
StatusOk(st) == st = 200

\* remaining_time of an attempt
RemainingTime == IF end_time = None THEN None ELSE Some(end_time[1] - now)
TimedOutLate == end_time # None /\ end_time[1] - now < 0
TimedOut == end_time # None /\ end_time[1] - now <= 0

\* ------------------------------------------------------------------ data
\* the raw data of a video: the url it was fetched from and what the two
\* blobs hold.  status, reason and messages describe playabilityStatus;
\* missing names the required field the player response lacks ("none" when
\* it lacks none); labels are the accessibility labels of the content
\* subtree of the page data, in the order str() writes them
Bundle(u, st, re, ms, mi, mf, ls) ==
    [url |-> u, status |-> st, reason |-> re, messages |-> ms,
     missing |-> mi, microformat |-> mf, labels |-> ls]
NoData == Bundle(<<>>, "OK", FALSE, FALSE, "none", "absent", <<>>)

\* ------------------------------------------------------------------ init
Timeouts == {None} \cup {Some(t) : t \in 0..MaxTimeout}

\* the state before the body of the call runs
Fresh ==
    /\ pc = "start"
    /\ session = None
    /\ created = 0
    /\ closedOwn = 0
    /\ closedCaller = 0
    /\ used = {}
    /\ now = 0
    /\ entry = now
    /\ url = <<>>
    /\ end_time = None
    /\ attempt = 0
    /\ ncalls = 0
    /\ log = <<>>
    /\ lastResp = NoResp
    /\ outcome = "running"
    /\ result = None
    /\ urlIdx = 0
    /\ tabs = <<>>
    /\ tabIdx = 0
    /\ videos = <<>>
    /\ continuation = None
    /\ tabStart = 0
    /\ tabLog = <<>>
    /\ sent = <<>>

\* any call, against an upstream that serves little
InitAny ==
    /\ fn \in {"get_data", "get_thumbnail", "get_channel_videos"}
    /\ in_str \in (IF fn = "get_channel_videos" THEN ChannelInStrs
                  ELSE IF fn = "get_data" THEN DataInStrs ELSE InStrs)
    /\ format \in (IF fn = "get_thumbnail" THEN Formats ELSE {"maxres"})
    /\ retries \in 0..MaxRetries
    /\ timeout \in Timeouts
    /\ sessionArg \in {None, Some("caller")}
    /\ data = NoData
    /\ budget = MaxSeen
    /\ Fresh

\* get_channel_videos with its defaults for session and timeout and no
\* retry, against an upstream that serves more
InitListing ==
    /\ fn = "get_channel_videos"
    /\ in_str \in ChannelInStrs
    /\ format = "maxres"
    /\ retries = 0
    /\ timeout = None
    /\ sessionArg = None
    /\ data = NoData
    /\ budget = MaxListed
    /\ Fresh

Init == InitAny \/ InitListing

\* ------------------------------------------------------- session scoping
\* "if session is None: with requests.Session() as session: return f(...)"
EnterSession ==
    /\ session' = IF sessionArg = None THEN Some("own") ELSE sessionArg
    /\ created' = IF sessionArg = None THEN created + 1 ELSE created

\* the with block closes the session it created whichever way the body is
\* left (outcome o); a session of the caller is in no with block
ClosesOwnOnReturn(arg, o) == arg = None /\ o = "return"
ClosesOwn(arg, o) == arg = None

\* leaving the call with outcome o and value r
Exit(o, r) ==
    /\ pc' = "done"
    /\ outcome' = o
    /\ result' = r
    /\ closedOwn' = IF ClosesOwn(sessionArg, o) THEN closedOwn + 1 ELSE closedOwn
    /\ UNCHANGED closedCaller

\* tabs and items of a listing page
RECURSIVE ItemCount(_)
ItemCount(ts) ==
    IF ts = <<>> THEN 0 ELSE 1 + Len(Head(ts).items) + ItemCount(Tail(ts))

\* what a transport outcome takes of the budget: one for the outcome, one
\* for each tab and one for each item it carries
Cost(r) ==
    IF r.exc # "none" THEN 1
    ELSE IF "tabs" \in DOMAIN r.body THEN 1 + ItemCount(r.body.tabs)
    ELSE IF "items" \in DOMAIN r.body THEN 1 + Len(r.body.items)
    ELSE 1

\* a transport call on the current session that ends at clock value t with
\* outcome r
Issue(r, t) ==
    /\ budget >= 1
    /\ budget' = budget - Cost(r)
    /\ ncalls' = ncalls + 1
    /\ log' = IF pc = "cv_cont" THEN log ELSE Append(log, r)
    /\ used' = used \cup {session}
    /\ lastResp' = r
    /\ now' = t

NoIssue == UNCHANGED <<ncalls, log, used, lastResp, now, budget>>
Running == UNCHANGED <<pc, outcome, result, closedOwn, closedCaller>>

\* -------------------------------------------------------------- get_data
WatchUrl(s) == IF IsBareId(s) THEN <<"W">> \o s ELSE s

GetDataEntry ==
    /\ pc = "start" /\ fn = "get_data"
    /\ EnterSession
    /\ url' = WatchUrl(in_str)
    /\ end_time' = Deadline(timeout, now)
    /\ attempt' = 0
    /\ pc' = "gd_loop"
    /\ UNCHANGED <<outcome, result, closedOwn, closedCaller>>
    /\ NoIssue
    /\ UNCHANGED chanVars
    /\ UNCHANGED argVars

\* one iteration of "for _ in range(retries+1)"
GetDataAttempt ==
    /\ pc = "gd_loop" /\ attempt < Attempts(retries)
    /\ attempt' = NextAttempt(attempt)
    /\ UNCHANGED <<session, created, url, end_time>>
    /\ UNCHANGED chanVars
    /\ UNCHANGED argVars
    /\ \/ /\ TimedOut
          /\ Exit("TimeoutError", None)
          /\ NoIssue
       \/ /\ ~TimedOut
          /\ \E r \in WatchOutcomes(RemainingTime), t \in Later :
                /\ Issue(r, t)
                /\ IF r.exc # "none"
                   THEN Exit(r.exc, None)
                   ELSE IF ~StatusOk(r.status)
                   THEN Running
                   ELSE IF ExtractRaises(r.body.ipr)
                           \/ ExtractRaises(r.body.idata)
                   THEN Exit("JSONDecodeError", None)
                   ELSE IF Extract(r.body.ipr, ncalls + 1) = None
                           \/ Extract(r.body.idata, ncalls + 1) = None
                   THEN Running
                   ELSE Exit("return",
                             Some([url |-> url,
                                   ytInitialPlayerResponse |->
                                       Extract(r.body.ipr, ncalls + 1)[1],
                                   ytInitialData |->
                                       Extract(r.body.idata, ncalls + 1)[1]]))

\* the for loop ran out
GetDataExhausted ==
    /\ pc = "gd_loop" /\ attempt = Attempts(retries)
    /\ Exit("RetryError", None)
    /\ NoIssue
    /\ UNCHANGED <<session, created, url, end_time, attempt>>
    /\ UNCHANGED chanVars
    /\ UNCHANGED argVars

\* --------------------------------------------------------- get_thumbnail
\* the video id of in_str, None when there is none
ThumbId(s) == IF IsBareId(s) THEN Some(s) ELSE _get_videoid(s)

ThumbUrlLenient(id, f) ==
    IF f = "maxres" THEN Some(<<"I">> \o id \o <<"maxresdefault">>)
    ELSE Some(<<"I">> \o id \o <<"hqdefault">>)
ThumbUrl(id, f) ==
    IF f = "maxres" THEN Some(<<"I">> \o id \o <<"maxresdefault">>)
    ELSE IF f = "hq" THEN Some(<<"I">> \o id \o <<"hqdefault">>)
    ELSE None

\* argument checks, url and deadline, up to the retry loop
GetThumbnailEntry ==
    /\ pc = "start" /\ fn = "get_thumbnail"
    /\ EnterSession
    /\ attempt' = 0
    /\ NoIssue
    /\ UNCHANGED chanVars
    /\ UNCHANGED argVars
    /\ IF ThumbId(in_str) = None \/ ThumbUrl(ThumbId(in_str)[1], format) = None
       THEN /\ Exit("Error", None)
            /\ UNCHANGED <<url, end_time>>
       ELSE /\ url' = ThumbUrl(ThumbId(in_str)[1], format)[1]
            /\ end_time' = Deadline(timeout, now)
            /\ pc' = "gt_loop"
            /\ UNCHANGED <<outcome, result, closedOwn, closedCaller>>

\* one iteration of "for _ in range(retries+1)"
GetThumbnailAttempt ==
    /\ pc = "gt_loop" /\ attempt < Attempts(retries)
    /\ attempt' = NextAttempt(attempt)
    /\ UNCHANGED <<session, created, url, end_time>>
    /\ UNCHANGED chanVars
    /\ UNCHANGED argVars
    /\ \/ /\ TimedOut
          /\ Exit("TimeoutError", None)
          /\ NoIssue
       \/ /\ ~TimedOut
          /\ \E r \in ThumbOutcomes(RemainingTime), t \in Later :
                /\ Issue(r, t)
                /\ IF r.exc # "none"
                   THEN IF IsConnectionError(r.exc) THEN Running
                        ELSE Exit(r.exc, None)
                   ELSE IF StatusOk(r.status)
                   THEN Exit("return", Some([content |-> ncalls + 1]))
                   ELSE Running

GetThumbnailExhausted ==
    /\ pc = "gt_loop" /\ attempt = Attempts(retries)
    /\ Exit("RetryError", None)
    /\ NoIssue
    /\ UNCHANGED <<session, created, url, end_time, attempt>>
    /\ UNCHANGED chanVars
    /\ UNCHANGED argVars

\* ---------------------------------------------------- get_channel_videos
ItemKinds == {"videoRenderer", "reelItemRenderer", "other",
              "continuationItemRenderer"}

\* sequences over S of length at most n
SeqsUpTo(S, n) == UNION {[1..k -> S] : k \in 0..n}

Smaller(a, b) == IF a < b THEN a ELSE b

\* the pages of at most k items, by kind
Pages(k) == SeqsUpTo(ItemKinds, Smaller(MaxItems, k))

\* the tabs of a listing page that take at most k of the budget (one for
\* the tab, one for each item): the grid path of a tab is there or not
Tabs(k) ==
    IF k < 1 THEN {}
    ELSE {[grid |-> "missing", items |-> <<>>]} \cup
         {[grid |-> "ok", items |-> p] : p \in Pages(k - 1)}

\* the sequences of at most n tabs that take at most k of the budget
RECURSIVE TabSeqs(_, _)
TabSeqs(k, n) ==
    {<<>>} \cup
    (IF n = 0 THEN {}
     ELSE UNION {{<<t>> \o rest :
                     rest \in TabSeqs(k - 1 - Len(t.items), n - 1)} :
                 t \in Tabs(k)})

\* item j of page p (0 is the first page) of tab t of sub-listing url u;
\* the upstream gives every item its own video id / token
Item(kind, u, t, p, j) == [kind |-> kind, id |-> <<u, t, p, j>>]
Label(page, u, t, p) == [j \in 1..Len(page) |-> Item(page[j], u, t, p, j)]
LabelTabs(ts, u) ==
    [t \in 1..Len(ts) |-> [grid |-> ts[t].grid,
                           items |-> Label(ts[t].items, u, t, 0)]]

\* bodies of a listing page that hold at most k items
ListingBodies(k) ==
    {[data |-> d, tabs |-> <<>>] : d \in {"absent", "unparseable", "notabs"}}
    \cup {[data |-> "ok", tabs |-> ts] : ts \in TabSeqs(k, MaxTabs)}
ListingOutcomes(rt, k) == Checked(ListingBodies(k)) \cup Raised(rt)

\* bodies of a continuation response that hold at most k items
BrowseBodies(k) ==
    {[json |-> j, items |-> <<>>] : j \in {"unparseable", "nokey", "noactions"}}
    \cup {[json |-> "ok", items |-> p] : p \in Pages(k)}
BrowseOutcomes(rt, k) ==
    {Resp("none", st, b) : st \in StatusCodes, b \in BrowseBodies(k)}
    \cup Raised(rt)

\* base url and the three sub-listing urls
BaseUrl(s) ==
    IF Len(s) >= 2 /\ s[1] = "@" /\ IsBareId(Tail(s)) THEN <<"Y">> \o s
    ELSE IF IsBareId(s) THEN <<"C">> \o s
    ELSE s
Urls(s) == <<BaseUrl(s) \o <<"/videos">>, BaseUrl(s) \o <<"/streams">>,
             BaseUrl(s) \o <<"/shorts">>>>

\* dict_tryget(item, 'richItemRenderer', 'content', 'videoRenderer',
\* 'videoId') or dict_tryget(item, ..., 'reelItemRenderer', 'videoId')
FirstPageId(item) ==
    IF item.kind \in {"videoRenderer", "reelItemRenderer"}
    THEN item.id ELSE None

IsContinuation(item) == item.kind = "continuationItemRenderer"

\* the loop over the items of a tab's first page
RECURSIVE FirstWalk(_, _, _)
FirstWalk(items, vs, cont) ==
    IF items = <<>> THEN [videos |-> vs, continuation |-> cont]
    ELSE IF ~IsContinuation(Head(items))
    THEN FirstWalk(Tail(items), Append(vs, FirstPageId(Head(items))), cont)
    ELSE FirstWalk(Tail(items), vs, Some(Head(items)))

\* item['richItemRenderer']['content']['videoRenderer']['videoId']
ContPageRaises(item) == item.kind # "videoRenderer"

RECURSIVE ContWalkReversed(_, _, _)
ContWalkReversed(items, vs, cont) ==
    IF items = <<>>
    THEN [videos |-> vs, continuation |-> cont, raised |-> FALSE]
    ELSE IF ~IsContinuation(Head(items))
    THEN IF ContPageRaises(Head(items))
         THEN [videos |-> vs, continuation |-> cont, raised |-> TRUE]
         ELSE ContWalkReversed(Tail(items), <<Head(items).id>> \o vs, cont)
    ELSE ContWalkReversed(Tail(items), vs, Some(Head(items)))

\* the loop over the items of a continuation page; it stops at the first
\* item whose lookup raises KeyError
RECURSIVE ContWalk(_, _, _)
ContWalk(items, vs, cont) ==
    IF items = <<>>
    THEN [videos |-> vs, continuation |-> cont, raised |-> FALSE]
    ELSE IF ~IsContinuation(Head(items))
    THEN IF ContPageRaises(Head(items))
         THEN [videos |-> vs, continuation |-> cont, raised |-> TRUE]
         ELSE ContWalk(Tail(items), Append(vs, Head(items).id), cont)
    ELSE ContWalk(Tail(items), vs, Some(Head(items)))

\* continuation['continuationItemRenderer']['continuationEndpoint']
\* ['continuationCommand']['token']
Token(item) == item.id

\* "continuation = None" before the loop over the items of a page
PageStartKept(c) == c
PageStart(c) == None

\* start of one iteration of "for url in [...]": deadline and retry loop
StartUrl(i) ==
    /\ urlIdx' = i
    /\ url' = Urls(in_str)[i]
    /\ end_time' = Deadline(timeout, now)
    /\ attempt' = 0
    /\ log' = <<>>
    /\ pc' = "cv_loop"
    /\ UNCHANGED <<outcome, result, closedOwn, closedCaller>>

GetChannelVideosEntry ==
    /\ pc = "start" /\ fn = "get_channel_videos"
    /\ EnterSession
    /\ videos' = <<>>
    /\ StartUrl(1)
    /\ UNCHANGED <<ncalls, used, lastResp, now, budget>>
    /\ UNCHANGED <<tabs, tabIdx, continuation, tabStart, tabLog, sent>>
    /\ UNCHANGED argVars

\* one iteration of the listing-page retry loop and, on a 200 response, the
\* code between the loop and the loop over the tabs
ListingAttempt ==
    /\ pc = "cv_loop" /\ attempt < Attempts(retries)
    /\ attempt' = NextAttempt(attempt)
    /\ UNCHANGED <<session, created, url, end_time, urlIdx, videos,
                   continuation, tabStart, tabLog, sent>>
    /\ UNCHANGED argVars
    /\ \/ /\ TimedOut
          /\ Exit("TimeoutError", None)
          /\ NoIssue
          /\ UNCHANGED <<tabs, tabIdx>>
       \/ /\ ~TimedOut
          /\ \E r \in ListingOutcomes(RemainingTime, budget - 1), t \in Later :
                /\ Issue(r, t)
                /\ IF r.exc # "none"
                   THEN Exit(r.exc, None) /\ UNCHANGED <<tabs, tabIdx>>
                   ELSE IF ~StatusOk(r.status)
                   THEN Running /\ UNCHANGED <<tabs, tabIdx>>
                   ELSE IF r.body.data = "unparseable"
                   THEN Exit("JSONDecodeError", None) /\ UNCHANGED <<tabs, tabIdx>>
                   ELSE IF r.body.data = "notabs"
                   THEN Exit("KeyError", None) /\ UNCHANGED <<tabs, tabIdx>>
                   ELSE /\ tabs' = IF r.body.data = "absent" THEN <<>>
                                   ELSE LabelTabs(r.body.tabs, urlIdx)
                        /\ tabIdx' = 1
                        /\ pc' = "cv_tab"
                        /\ UNCHANGED <<outcome, result, closedOwn, closedCaller>>

\* the else branch of the listing-page retry loop
ListingExhausted ==
    /\ pc = "cv_loop" /\ attempt = Attempts(retries)
    /\ Exit("RetryError", None)
    /\ NoIssue
    /\ UNCHANGED <<session, created, url, end_time, attempt>>
    /\ UNCHANGED chanVars
    /\ UNCHANGED argVars

\* the first page of one tab, inside the try block
TabFirstPage ==
    /\ pc = "cv_tab" /\ tabIdx <= Len(tabs)
    /\ NoIssue
    /\ UNCHANGED <<session, created, url, end_time, attempt, urlIdx, tabs,
                   outcome, result, closedOwn, closedCaller, sent>>
    /\ UNCHANGED argVars
    /\ tabStart' = Len(videos)
    /\ IF tabs[tabIdx].grid = "missing"
       THEN /\ tabIdx' = tabIdx + 1
            /\ tabLog' = <<>>
            /\ UNCHANGED <<videos, continuation, pc>>
       ELSE LET w == FirstWalk(tabs[tabIdx].items, videos, None)
            IN /\ videos' = w.videos
               /\ continuation' = w.continuation
               /\ tabLog' = <<tabs[tabIdx].items>>
               /\ IF w.continuation = None
                  THEN tabIdx' = tabIdx + 1 /\ pc' = pc
                  ELSE tabIdx' = tabIdx /\ pc' = "cv_cont"

\* one iteration of "while continuation is not None", inside the try block
ContinuationPage ==
    /\ pc = "cv_cont"
    /\ UNCHANGED <<session, created, url, end_time, attempt, urlIdx, tabs,
                   tabStart>>
    /\ UNCHANGED argVars
    /\ \/ /\ TimedOut
          /\ Exit("TimeoutError", None)
          /\ NoIssue
          /\ UNCHANGED <<videos, continuation, tabIdx, tabLog, sent>>
       \/ /\ ~TimedOut
          /\ \E r \in BrowseOutcomes(RemainingTime, budget - 1), t \in Later :
                /\ Issue(r, t)
                /\ sent' = Append(sent, Token(continuation[1]))
                /\ IF r.exc # "none"
                   THEN /\ Exit(r.exc, None)
                        /\ UNCHANGED <<videos, continuation, tabIdx, tabLog>>
                   ELSE IF r.body.json = "unparseable"
                   THEN /\ Exit("JSONDecodeError", None)
                        /\ UNCHANGED <<videos, continuation, tabIdx, tabLog>>
                   ELSE IF r.body.json = "noactions"
                   THEN /\ Exit("IndexError", None)
                        /\ UNCHANGED <<videos, continuation, tabIdx, tabLog>>
                   ELSE IF r.body.json = "nokey"
                   THEN /\ tabIdx' = tabIdx + 1
                        /\ pc' = "cv_tab"
                        /\ UNCHANGED <<videos, continuation, tabLog>>
                        /\ UNCHANGED <<outcome, result, closedOwn, closedCaller>>
                   ELSE LET page == Label(r.body.items, urlIdx, tabIdx, Len(tabLog))
                            w == ContWalk(page, videos, PageStart(continuation))
                        IN /\ videos' = w.videos
                           /\ continuation' = w.continuation
                           /\ tabLog' = Append(tabLog, page)
                           /\ IF w.raised \/ w.continuation = None
                              THEN tabIdx' = tabIdx + 1 /\ pc' = "cv_tab"
                              ELSE tabIdx' = tabIdx /\ pc' = pc
                           /\ UNCHANGED <<outcome, result, closedOwn,
                                          closedCaller>>

\* the tabs of one url are done: the next url, or "return videos"
NextUrl ==
    /\ pc = "cv_tab" /\ tabIdx > Len(tabs)
    /\ UNCHANGED <<session, created, videos, tabs, tabIdx, continuation,
                   tabStart, tabLog, sent>>
    /\ UNCHANGED <<ncalls, used, lastResp, now, budget>>
    /\ UNCHANGED argVars
    /\ IF urlIdx < Len(Urls(in_str))
       THEN StartUrl(urlIdx + 1)
       ELSE /\ Exit("return", Some(videos))
            /\ UNCHANGED <<urlIdx, url, end_time, attempt, log>>

Next ==
    \/ GetDataEntry \/ GetDataAttempt \/ GetDataExhausted
    \/ GetThumbnailEntry \/ GetThumbnailAttempt \/ GetThumbnailExhausted
    \/ GetChannelVideosEntry \/ ListingAttempt \/ ListingExhausted
    \/ TabFirstPage \/ ContinuationPage \/ NextUrl

Spec == Init /\ [][Next]_vars

\* The program is sequential: it takes its next step whenever it has one.
\* Calls of get_channel_videos start here without retry, without timeout or
\* with the smallest one, and with a session of their own.
InitFair ==
    /\ InitAny
    /\ fn = "get_channel_videos" =>
          /\ retries = 0
          /\ timeout \in {None, Some(1)}
          /\ sessionArg = None

FairSpec == InitFair /\ [][Next]_vars /\ WF_vars(Next)

\* ============================================ get_status and extract_info
\* Texts of a label are sequences of tokens too: digits, "," and ".", the
\* word "No"; the word after the count is <<"likes">>, <<"dis", "likes">>
\* ("dislikes") or <<"views">>.

Statuses == {"OK", "ERROR", "LOGIN_REQUIRED", "UNPLAYABLE"}

\* get_status: LOGIN_REQUIRED is told apart by the fields next to it
get_statusAnyStatus(d) ==
    IF d.reason THEN "AGE_RESTRICTED"
    ELSE IF d.messages THEN "PRIVATE"
    ELSE d.status
get_status(d) ==
    IF d.status = "LOGIN_REQUIRED" /\ d.reason THEN "AGE_RESTRICTED"
    ELSE IF d.status = "LOGIN_REQUIRED" /\ d.messages THEN "PRIVATE"
    ELSE d.status

\* "if ret['status'] in ['ERROR', 'PRIVATE']"
MinimalStatusesErrorOnly == {"ERROR"}
MinimalStatuses == {"ERROR", "PRIVATE"}

\* the fields of the player response that extract_info subscripts, in the
\* order it reads them; a bundle without videoDetails lacks all of them
DetailFields == <<"videoId", "author", "channelId", "title",
                  "shortDescription", "lengthSeconds", "isLiveContent",
                  "viewCount">>
Missing == {"none", "videoDetails"} \cup {DetailFields[i] : i \in 1..Len(DetailFields)}

\* microformat: absent, present with its two dates, or present without
Microformats == {"absent", "ok", "nodates"}

\* a subscript of extract_info that raises KeyError
LookupRaises(d) == d.missing # "none" \/ d.microformat = "nodates"

\* --- the label pattern
Digits == {"1", "2", "3", "4"}
Separators == {",", "."}
DigitValue(c) == CASE c = "1" -> 1 [] c = "2" -> 2 [] c = "3" -> 3 [] OTHER -> 4

\* the group ([\d,\.]+|No)
MatchesCount(c) ==
    \/ c = <<"No">>
    \/ Len(c) >= 1 /\ \A i \in 1..Len(c) : c[i] \in Digits \cup Separators

\* the whole pattern on one label, for the word w: the count, white space,
\* the word, the closing quote
LabelMatchesSuffix(l, w) ==
    /\ MatchesCount(l.count)
    /\ Len(l.word) >= Len(w)
    /\ SubSeq(l.word, Len(l.word) - Len(w) + 1, Len(l.word)) = w
LabelMatches(l, w) == MatchesCount(l.count) /\ l.word = w

\* re.search: the first label of the content that matches, 0 for no match
Search(ls, w) ==
    LET hits == {i \in 1..Len(ls) : LabelMatches(ls[i], w)}
    IN IF hits = {} THEN 0 ELSE Min(hits)

\* re.sub("[,\.]", '', m[1])
IsDigit(c) == c \in Digits
StripSeparators(c) == SelectSeq(c, IsDigit)

\* int() of a text of digits
RECURSIVE ToInt(_)
ToInt(c) ==
    IF c = <<>> THEN 0
    ELSE 10 * ToInt(SubSeq(c, 1, Len(c) - 1)) + DigitValue(c[Len(c)])

\* int('') raises ValueError
CountRaises(ls, w) ==
    /\ Search(ls, w) # 0
    /\ ls[Search(ls, w)].count # <<"No">>
    /\ StripSeparators(ls[Search(ls, w)].count) = <<>>

\* ret['likes'] / ret['dislikes'] for the word w
Count(ls, w) ==
    LET m == Search(ls, w)
    IN IF m = 0 THEN None
       ELSE IF ls[m].count = <<"No">> THEN Some(0)
       ELSE Some(ToInt(StripSeparators(ls[m].count)))

LikesWord == <<"likes">>
DislikesWord == <<"dis", "likes">>

\* --- the record
MinimalKeys == {"status", "timestamp", "id"}
DateKeys == {"publish_date", "upload_date"}
FullKeys ==
    MinimalKeys \cup
    {"author", "channel_id", "title", "description", "length",
     "live_content", "chat_available", "average_rating", "views",
     "family_safe", "keywords", "chapters", "likes", "dislikes", "unlisted",
     "category", "start_time", "end_time"}

\* the record of the short path
MinimalInfo(d) ==
    [k \in MinimalKeys |->
        CASE k = "status" -> Some(get_status(d))
          [] k = "timestamp" -> Some("utcnow")
          [] OTHER -> _get_videoid(d.url)]

\* the record of the long path; a value read from the page is named by its
\* field, a value the page does not carry is None
FullInfo(d) ==
    [k \in FullKeys \cup (IF d.microformat = "ok" THEN DateKeys ELSE {}) |->
        CASE k = "status" -> Some(get_status(d))
          [] k = "timestamp" -> Some("utcnow")
          [] k = "id" -> Some(<<"videoId">>)
          [] k = "likes" -> Count(d.labels, LikesWord)
          [] k = "dislikes" -> Count(d.labels, DislikesWord)
          [] k \in {"author", "channel_id", "title", "description", "length",
                    "live_content", "views"} \cup DateKeys -> Some(k)
          [] OTHER -> None]

\* neither routine touches a session, the transport or the clock
InfoExit(o, r) ==
    /\ pc' = "done"
    /\ outcome' = o
    /\ result' = r
    /\ UNCHANGED <<session, created, closedOwn, closedCaller, used, now, url,
                   end_time, attempt, ncalls, log, lastResp, budget>>
    /\ UNCHANGED chanVars
    /\ UNCHANGED argVars

GetStatus ==
    /\ pc = "start"
    /\ fn = "get_status"
    /\ InfoExit("return", Some(get_status(data)))

ExtractInfo ==
    /\ pc = "start"
    /\ fn = "extract_info"
    /\ IF get_status(data) \in MinimalStatuses
       THEN InfoExit("return", Some(MinimalInfo(data)))
       ELSE IF LookupRaises(data)
       THEN InfoExit("KeyError", None)
       ELSE IF \/ CountRaises(data.labels, LikesWord)
               \/ CountRaises(data.labels, DislikesWord)
       THEN InfoExit("ValueError", None)
       ELSE InfoExit("return", Some(FullInfo(data)))

\* the bundles: the urls get_data builds, and the labels of a page
InfoUrls == {WatchUrl(s) : s \in DataInStrs}
Counts == {<<"No">>, <<"1">>, <<"1", ",", "2", "3", "4">>, <<"1", ".", "2">>,
           <<",">>, <<"x">>}
Words == {LikesWord, DislikesWord, <<"views">>}
Labels == [count : Counts, word : Words]

InfoArgs ==
    /\ in_str = <<>>
    /\ format = "maxres"
    /\ retries = 0
    /\ timeout = None
    /\ sessionArg = None
    /\ budget = 0
    /\ Fresh

\* either routine on a bundle without labels
InitFields ==
    /\ fn \in {"get_status", "extract_info"}
    /\ data \in {Bundle(u, st, re, ms, mi, mf, <<>>) :
                    u \in InfoUrls, st \in Statuses, re \in BOOLEAN,
                    ms \in BOOLEAN, mi \in Missing, mf \in Microformats}
    /\ InfoArgs

\* extract_info on a playable video whose page carries labels
InitLabels ==
    /\ fn = "extract_info"
    /\ data \in {Bundle(<<"W", "a">>, "OK", FALSE, FALSE, "none", "ok", ls) :
                    ls \in SeqsUpTo(Labels, MaxLabels)}
    /\ InfoArgs

InitInfo == InitFields \/ InitLabels

NextInfo == GetStatus \/ ExtractInfo

SpecInfo == InitInfo /\ [][NextInfo]_vars

\* ================================================================ claims
Front(l) == SubSeq(l, 1, Len(l) - 1)
Last(l) == l[Len(l)]
AllNon200(l) == \A i \in 1..Len(l) : l[i].exc = "none" /\ l[i].status # 200
Done == pc = "done"
ValidThumbnailArgs ==
    fn = "get_thumbnail" =>
        /\ format \in {"maxres", "hq"}
        /\ (IsBareId(in_str) \/ _get_videoid(in_str) # None)

\* C1 (as claimed): a call with timeout=0 raises the Timeout error and
\* issues no transport call.
C1_TimeoutZeroRaises ==
    (timeout = Some(0) /\ ValidThumbnailArgs) =>
        /\ ncalls = 0
        /\ Done => outcome = "TimeoutError"

\* C2: a retry loop never issues more than retries+1 calls; RetryError is
\* raised after exactly retries+1 calls; and with no timeout and only
\* non-200 responses the loop goes on until it raises RetryError.
C2_RetryExhaustion ==
    /\ Len(log) <= retries + 1
    /\ outcome = "RetryError" => Len(log) = retries + 1
    /\ (timeout = None /\ log # <<>> /\ AllNon200(log)) =>
          /\ pc \in {"gd_loop", "gt_loop", "cv_loop", "done"}
          /\ Done => outcome = "RetryError"
          /\ ~Done => attempt = Len(log)

C2_Witness ==
    /\ outcome = "RetryError" /\ timeout = None /\ retries = 2
    /\ Len(log) = 3 /\ AllNon200(log)

\* C3: in get_data and get_thumbnail, when k non-200 attempts are followed
\* by a good 200 response, the call has returned, the result is built from
\* response k+1 and k+1 transport calls were issued.
GoodResponse(r) ==
    /\ r.exc = "none" /\ r.status = 200
    /\ fn = "get_data" => (r.body.ipr = "ok" /\ r.body.idata = "ok")

C3_RetrySuccess ==
    (fn \in {"get_data", "get_thumbnail"} /\ log # <<>>
        /\ AllNon200(Front(log)) /\ GoodResponse(Last(log))) =>
        /\ Done /\ outcome = "return"
        /\ ncalls = Len(log)
        /\ fn = "get_data" =>
              /\ result[1].ytInitialPlayerResponse = Len(log)
              /\ result[1].ytInitialData = Len(log)
        /\ fn = "get_thumbnail" => result[1].content = Len(log)

C3_Witness ==
    /\ fn = "get_data" /\ outcome = "return" /\ retries = 2
    /\ Len(log) = 3 /\ AllNon200(Front(log))

\* C4 (as claimed): a connection-level error of the transport never leaves
\* a fetch loop; it counts as a failed attempt.
C4_TransportErrorsRetried ==
    outcome \notin {"ConnectionError", "ConnectTimeout", "ReadTimeout"}

\* C5 (as claimed): in get_data and in the listing-page fetch of
\* get_channel_videos a 200 response whose blob is missing or unparseable
\* is a failed attempt: the same url is tried again, or the budget is
\* exhausted and the call raises RetryError.
MalformedPage(r) ==
    /\ r.exc = "none" /\ r.status = 200
    /\ \/ fn = "get_data" /\ (r.body.ipr # "ok" \/ r.body.idata # "ok")
       \/ fn = "get_channel_videos"
            /\ r.body.data \in {"absent", "unparseable"}

C5_MalformedRetried ==
    (fn \in {"get_data", "get_channel_videos"} /\ log # <<>>
        /\ MalformedPage(Last(log))) =>
        \/ pc \in {"gd_loop", "cv_loop"} /\ attempt = Len(log)
        \/ Done /\ outcome = "RetryError"

\* C6: with a deadline set, no transport call is issued once the remaining
\* time is <= 0: the attempt raises the Timeout error instead, also when
\* it is the last attempt of the budget; RetryError is raised only after
\* retries+1 calls.
AtAttempt ==
    \/ pc \in {"gd_loop", "gt_loop", "cv_loop"} /\ attempt < retries + 1
    \/ pc = "cv_cont"
Elapsed == end_time # None /\ end_time[1] - now <= 0

C6_DeadlineBeforeCall ==
    [][/\ ncalls' # ncalls => ~Elapsed
       /\ (AtAttempt /\ Elapsed) =>
             (outcome' = "TimeoutError" /\ ncalls' = ncalls /\ pc' = "done")
       /\ outcome' = "TimeoutError" => (Elapsed /\ AtAttempt)
       /\ (outcome' = "RetryError" /\ outcome # "RetryError") =>
             Len(log) = retries + 1]_vars

C6_Witness ==
    /\ outcome = "TimeoutError" /\ Truthy(timeout) /\ retries >= 1
    /\ attempt = retries + 1 /\ Len(log) = retries

\* C7: with session=None one session is created, every transport call
\* uses it and it is closed exactly once when the call is left, whatever
\* the outcome; a session of the caller is used, never closed, and no
\* session is created.
C7_SessionScoped ==
    /\ closedCaller = 0
    /\ sessionArg = None =>
          /\ pc # "start" => created = 1
          /\ used \subseteq {Some("own")}
          /\ closedOwn = IF Done THEN 1 ELSE 0
    /\ sessionArg # None =>
          /\ created = 0 /\ closedOwn = 0
          /\ used \subseteq {sessionArg}

C7_Witness ==
    /\ sessionArg = None /\ Done /\ outcome = "TimeoutError"
    /\ ncalls >= 1 /\ created = 1 /\ closedOwn = 1

\* C8: when the first page of a tab holds video entries and one
\* continuation marker and the continuation response holds videoRenderer
\* entries and no marker, the tab adds exactly the identifiers of the first
\* page and then those of the second page, in page order, the marker is
\* not appended, and the call returns the accumulator.
IsMarker(item) == item.kind = "continuationItemRenderer"
IsEntry(item) == item.kind \in {"videoRenderer", "reelItemRenderer"}
NotMarker(item) == ~IsMarker(item)
Ids(page) == [j \in 1..Len(page) |-> page[j].id]
MarkerCount(page) == Cardinality({j \in 1..Len(page) : IsMarker(page[j])})
Range(f) == {f[x] : x \in DOMAIN f}

TwoPageTab ==
    /\ fn = "get_channel_videos" /\ Len(tabLog) = 2
    /\ MarkerCount(tabLog[1]) = 1
    /\ \A j \in 1..Len(tabLog[1]) :
          IsMarker(tabLog[1][j]) \/ IsEntry(tabLog[1][j])
    /\ \A j \in 1..Len(tabLog[2]) : tabLog[2][j].kind = "videoRenderer"

C9_TabFailureIsolated ==
    fn = "get_channel_videos" => outcome \notin {"KeyError", "IndexError"}

\* C10: get_thumbnail with a format other than maxres / hq, or with an
\* input that is neither a bare id nor a url with an id, raises Error at
\* once and issues no transport call.
C10_InvalidArguments ==
    (fn = "get_thumbnail" /\ pc # "start"
        /\ \/ format \notin {"maxres", "hq"}
           \/ (~IsBareId(in_str) /\ _get_videoid(in_str) = None)) =>
        /\ Done /\ outcome = "Error"
        /\ ncalls = 0 /\ used = {}

C10_Witness ==
    /\ fn = "get_thumbnail" /\ format = "bogus" /\ IsBareId(in_str)
    /\ outcome = "Error" /\ ncalls = 0 /\ Truthy(timeout)

\* ---------------------------------------------- get_status / extract_info
Info == result[1]

\* C11: extract_info on a bundle whose classified status is ERROR or
\* PRIVATE returns a record with exactly the keys status, timestamp and id,
\* whose id is the identifier parsed from the url of the bundle (None when
\* the url holds none); it returns it whatever the player response and the
\* page data lack.
C11_MinimalRecord ==
    (Done /\ fn = "extract_info"
        /\ get_status(data) \in {"ERROR", "PRIVATE"}) =>
        /\ outcome = "return"
        /\ DOMAIN Info = {"status", "timestamp", "id"}
        /\ Info["status"] = Some(get_status(data))
        /\ Info["id"] = _get_videoid(data.url)
        /\ data.url \in {<<"W", "a">>, <<"B", "a", "&">>} =>
              Info["id"] = Some(<<"a">>)
        /\ data.url = <<"&">> => Info["id"] = None

C11_Witness ==
    /\ Done /\ fn = "extract_info" /\ outcome = "return"
    /\ data.status = "LOGIN_REQUIRED" /\ data.messages /\ ~data.reason
    /\ data.missing = "videoDetails" /\ data.microformat = "nodates"
    /\ data.url = <<"B", "a", "&">>
    /\ Info["id"] = Some(<<"a">>)

\* C12: get_status gives AGE_RESTRICTED for LOGIN_REQUIRED with a reason
\* and no messages, PRIVATE for LOGIN_REQUIRED with messages and no reason,
\* and every status other than LOGIN_REQUIRED unchanged, whichever of the
\* two fields are there.
C12_StatusClassification ==
    (Done /\ fn = "get_status") =>
        /\ outcome = "return"
        /\ (data.status = "LOGIN_REQUIRED" /\ data.reason /\ ~data.messages)
              => result = Some("AGE_RESTRICTED")
        /\ (data.status = "LOGIN_REQUIRED" /\ data.messages /\ ~data.reason)
              => result = Some("PRIVATE")
        /\ data.status # "LOGIN_REQUIRED" => result = Some(data.status)

C12_Witness ==
    /\ Done /\ fn = "get_status"
    /\ data.status = "UNPLAYABLE" /\ data.reason /\ data.messages
    /\ result = Some("UNPLAYABLE")

\* C13 (as claimed): extract_info on a bundle whose status is neither ERROR
\* nor PRIVATE and that lacks a required field fails with MalformedData.
C13_MalformedData ==
    (Done /\ fn = "extract_info"
        /\ get_status(data) \notin {"ERROR", "PRIVATE"}
        /\ data.missing # "none") =>
        outcome = "MalformedData"

\* a count as a reader takes it: "No", or digits with separators between
IsNumeral(c) ==
    /\ \A i \in 1..Len(c) : c[i] \in Digits \cup Separators
    /\ \E i \in 1..Len(c) : c[i] \in Digits
IsCountText(c) == c = <<"No">> \/ IsNumeral(c)
OnlySeparators(c) ==
    Len(c) >= 1 /\ \A i \in 1..Len(c) : c[i] \in Separators

\* positions of the labels "<count> w" of a content
CountLabels(ls, w) ==
    {i \in 1..Len(ls) : ls[i].word = w /\ IsCountText(ls[i].count)}

\* the number a count stands for: its digits weighted from the right
RECURSIVE Pow10(_)
Pow10(n) == IF n = 0 THEN 1 ELSE 10 * Pow10(n - 1)
RECURSIVE Weighted(_, _)
Weighted(ds, i) ==
    IF i > Len(ds) THEN 0
    ELSE DigitValue(ds[i]) * Pow10(Len(ds) - i) + Weighted(ds, i + 1)
Stands(c) ==
    IF c = <<"No">> THEN 0 ELSE Weighted(SelectSeq(c, IsDigit), 1)

Expected(ls, w) ==
    IF CountLabels(ls, w) = {} THEN None
    ELSE Some(Stands(ls[Min(CountLabels(ls, w))].count))

Posts == pc = "cv_cont" /\ ncalls' = ncalls + 1
HasMarker(page) == \E j \in 1..Len(page) : IsMarker(page[j])
LastMarker(page) ==
    page[CHOOSE j \in 1..Len(page) :
            /\ IsMarker(page[j])
            /\ \A k \in (j + 1)..Len(page) : ~IsMarker(page[k])]

\* C15 (as claimed): a continuation request that ends in a non-200
\* response or a transport error is a failed attempt: the same request is
\* issued again, or the call ends with RetryError; the body of a non-200
\* response is never parsed as a page.
C15_ContinuationRetried ==
    [][(Posts /\ (lastResp'.exc # "none" \/ lastResp'.status # 200)) =>
          /\ videos' = videos /\ tabLog' = tabLog
          /\ \/ pc' = "cv_cont" /\ continuation' = continuation
             \/ outcome' = "RetryError"]_vars

\* C16 (as claimed): with a positive timeout T no transport call of
\* get_data, get_thumbnail or get_channel_videos is issued later than the
\* entry time plus T.
C16_DeadlineFixedAtEntry ==
    [][(ncalls' = ncalls + 1 /\ Truthy(timeout)) =>
          now <= entry + timeout[1]]_vars

\* C17: in get_channel_videos every token sent is the token of the last
\* continuation marker of the page processed last for the tab and was not
\* sent before; every continuation request sends one; a page beyond the
\* first was fetched with the token of the page before it; the loop goes
\* on only while the page processed last holds a marker.
C17_TokenLifecycle ==
    [][fn = "get_channel_videos" =>
          /\ Posts => sent' # sent
          /\ sent' # sent =>
                /\ Posts
                /\ Front(sent') = sent
                /\ tabLog # <<>> /\ HasMarker(Last(tabLog))
                /\ Last(sent') = LastMarker(Last(tabLog)).id
                /\ Last(sent') \notin Range(sent)
          /\ (tabLog' # tabLog /\ Len(tabLog') >= 2) =>
                /\ Front(tabLog') = tabLog
                /\ sent' # sent
                /\ Last(sent') = LastMarker(Last(tabLog)).id
          /\ pc' = "cv_cont" =>
                /\ HasMarker(Last(tabLog'))
                /\ continuation' = Some(LastMarker(Last(tabLog')))
                /\ LastMarker(Last(tabLog')).id \notin Range(sent')]_vars

\* two tabs paginate in one call: the second token comes from the second tab
C17_Witness ==
    /\ fn = "get_channel_videos" /\ Len(sent) = 2
    /\ sent[1][2] = 1 /\ sent[2][2] = 2
    /\ Len(tabLog) = 2 /\ ~HasMarker(Last(tabLog))
    /\ pc = "cv_tab"

\* C18 (as claimed): a continuation page made only of the item kinds a
\* first page accepts (videoRenderer, reelItemRenderer, continuation
\* marker) has the identifier of each of its entries appended.
C18_ContinuationLikeFirst ==
    fn = "get_channel_videos" =>
        \A i \in 2..Len(tabLog) :
            (\A j \in 1..Len(tabLog[i]) :
                IsMarker(tabLog[i][j]) \/ IsEntry(tabLog[i][j])) =>
            (\A j \in 1..Len(tabLog[i]) :
                IsEntry(tabLog[i][j]) => tabLog[i][j].id \in Range(videos))

\* C19 (as claimed): the accumulator of get_channel_videos, and so the
\* list it returns, never holds a null entry.
C19_OnlyIdentifiers ==
    fn = "get_channel_videos" =>
        \A i \in 1..Len(videos) : videos[i] # None

\* ------------------------------------------------------------ termination
\* what is left of a call, most significant first: sub-listing urls,
\* whether the listing page is still to be fetched, and iterations of the
\* retry loop or tabs (twice the tabs left, plus one before a tab's first
\* page)
Rank ==
    IF pc = "done" THEN <<0, 0, 0>>
    ELSE IF pc = "start" THEN <<Len(Urls(in_str)) + 1, 1, 0>>
    ELSE IF pc \in {"gd_loop", "gt_loop"}
    THEN <<1, 1, retries + 1 - attempt>>
    ELSE IF pc = "cv_loop"
    THEN <<Len(Urls(in_str)) + 1 - urlIdx, 1, retries + 1 - attempt>>
    ELSE IF pc = "cv_tab"
    THEN <<Len(Urls(in_str)) + 1 - urlIdx, 0,
           2 * (Len(tabs) + 1 - tabIdx) + 1>>
    ELSE <<Len(Urls(in_str)) + 1 - urlIdx, 0, 2 * (Len(tabs) + 1 - tabIdx)>>

LexLess(a, b) ==
    \/ a[1] < b[1]
    \/ a[1] = b[1] /\ a[2] < b[2]
    \/ a[1] = b[1] /\ a[2] = b[2] /\ a[3] < b[3]

\* the pagination loop goes round once more
Stays == pc = "cv_cont" /\ pc' = "cv_cont"

\* a call that waits for a transport call the upstream will not answer
Starved ==
    /\ budget < 1
    /\ pc \in {"gd_loop", "gt_loop", "cv_loop", "cv_cont"}
    /\ ~(end_time # None /\ end_time[1] <= now)
    /\ pc # "cv_cont" => attempt < retries + 1

====
